---- MODULE Spec2Model ----
(***************************************************************************)
(* Hacker News digest: the store-backed digest run (index.js with db.js),  *)
(* the file-based digest run, the processed-story store, the feedback      *)
(* server and the relevance classifier's prompt and answer handling.       *)
(*                                                                         *)
(* Time is counted in whole days: Date.now() is the variable now, and      *)
(* expiryDays * 24 * 60 * 60 * 1000 is historyExpiryDays clock units.      *)
(* Strings that the code inspects character by character (story titles,   *)
(* oracle answers) are sequences of one-character strings.                 *)
(***************************************************************************)
EXTENDS Integers, Sequences, FiniteSets, TLC

VARIABLES
    now,                 \* Date.now()
    processed_stories,   \* table processed_stories(story_id PK, processed_at)
    feedback_history,    \* table feedback_history(id, story_id, title, rating, created_at)
    interests,           \* table interests(id, interest UNIQUE), committed rows
    not_interested,      \* table not_interested(id, term UNIQUE)
    history_file,        \* processed-stories.json of the file-based variant
    feedback_file,       \* feedback-history.json of the file-based server
    run,                 \* per digest process: the locals of main() (see NewRun)
    starts,              \* number of digest processes started so far
    req,                 \* feedback server: the last request received
    resp,                \* feedback server: the last response sent
    txn,                 \* saveInterests: the open transaction
    requests,            \* feedback server: number of requests received
    prompt,              \* checkRelevance: the feedback examples of the prompt
    verdict,             \* checkRelevance: the value returned
    CRON_SECRET          \* process.env.CRON_SECRET of the feedback server

storeVars == <<processed_stories, feedback_history, interests, not_interested,
              history_file, feedback_file>>
runVars == <<run, starts>>
serverVars == <<req, resp, txn, requests>>
classifierVars == <<prompt, verdict>>
envVars == <<CRON_SECRET>>
vars == <<now, storeVars, runVars, serverVars, classifierVars, envVars>>

(***************************************************************************)
(* Bounds of the model.                                                    *)
(***************************************************************************)
NumStories == 2      \* story ids the content source can return
MaxBatch == 2        \* longest batch fetchTopStories returns in Spec
MaxStarts == 2       \* digest processes started in one behaviour
MaxTime == 9         \* last clock value
MaxAnswerLen == 4    \* longest oracle answer drawn
MaxFeedback == 7     \* most feedback records in the store
QuotaBatch == 11     \* batch size of the quota scenario
MaxRequests == 3     \* requests the feedback server receives
MaxTerms == 2        \* longest interests array posted
MaxRank == 3         \* longest batch of the ranking scenario

(***************************************************************************)
(* Program constants.                                                      *)
(***************************************************************************)
historyExpiryDays == 7

Undefined == "undefined"

StoryIds == 1..NumStories

(***************************************************************************)
(* JavaScript string operations on sequences of characters.                *)
(***************************************************************************)
UpperCase == <<"A","B","C","D","E","F","G","H","I","J","K","L","M",
               "N","O","P","Q","R","S","T","U","V","W","X","Y","Z">>
LowerCase == <<"a","b","c","d","e","f","g","h","i","j","k","l","m",
               "n","o","p","q","r","s","t","u","v","w","x","y","z">>

IndexIn(c, alphabet) ==
    IF \E k \in 1..Len(alphabet) : alphabet[k] = c
    THEN CHOOSE k \in 1..Len(alphabet) : alphabet[k] = c
    ELSE 0

charToLower(c) == IF IndexIn(c, UpperCase) > 0 THEN LowerCase[IndexIn(c, UpperCase)] ELSE c
charToUpper(c) == IF IndexIn(c, LowerCase) > 0 THEN UpperCase[IndexIn(c, LowerCase)] ELSE c

toLowerCase(s) == [k \in 1..Len(s) |-> charToLower(s[k])]
toUpperCase(s) == [k \in 1..Len(s) |-> charToUpper(s[k])]

includes(s, k) ==
    \E i \in 0..(Len(s) - Len(k)) : SubSeq(s, i + 1, i + Len(k)) = k

startsWith(s, p) == Len(s) >= Len(p) /\ SubSeq(s, 1, Len(p)) = p

\* the white space String.prototype.trim removes, as far as answers hold it
IsSpace(c) == c \in {" ", "\t", "\n"}

RECURSIVE trimStart(_)
trimStart(s) == IF s /= <<>> /\ IsSpace(Head(s)) THEN trimStart(Tail(s)) ELSE s

RECURSIVE trimEnd(_)
trimEnd(s) ==
    IF s /= <<>> /\ IsSpace(s[Len(s)]) THEN trimEnd(SubSeq(s, 1, Len(s) - 1)) ELSE s

trim(s) == trimEnd(trimStart(s))

\* a >= b of JavaScript when b may be undefined: undefined converts to NaN
\* and every comparison with NaN is false.
jsGreaterEq(a, b) == IF b = Undefined THEN FALSE ELSE a >= b

(***************************************************************************)
(* Sequences.                                                              *)
(***************************************************************************)
Range(s) == {s[k] : k \in 1..Len(s)}

\* the last n elements: Array.prototype.slice(-n)
sliceLast(s, n) == IF Len(s) <= n THEN s ELSE SubSeq(s, Len(s) - n + 1, Len(s))

InjectiveSeqs(S, n) ==
    UNION {{s \in [1..k -> S] : \A a, b \in 1..k : a /= b => s[a] /= s[b]} : k \in 0..n}

(***************************************************************************)
(* The content source: story id -> the fields the digest run reads.        *)
(* Stories 2, 5, 8, ... are job posts whose title spells a hiring keyword  *)
(* in capitals; ids 1 and 4 have equal points.                             *)
(***************************************************************************)
TitleGo == <<"G","o"," ","2">>
TitleSeek == <<"A","I"," ","s","e","e","k","s">>
TitleJob == <<"N","o","w"," ","H","I","R","I","N","G">>

title(id) ==
    CASE id % 3 = 1 -> TitleGo
      [] id % 3 = 2 -> TitleJob
      [] OTHER -> TitleSeek

points(id) == 5 + 2 * (id % 3)

(***************************************************************************)
(* db.js: the processed_stories table, a set of rows.                      *)
(***************************************************************************)
EmptyMap == [x \in {} |-> 0]

Row(id, at) == [story_id |-> id, processed_at |-> at]

\* SELECT story_id, processed_at FROM processed_stories, folded into an object
loadProcessedStories(rows) ==
    [id \in {r.story_id : r \in rows} |->
        (CHOOSE r \in rows : r.story_id = id).processed_at]

\* INSERT ... ON CONFLICT (story_id) DO NOTHING
markStoryAsProcessed_dropped(rows, storyId, t) == rows

markStoryAsProcessed(rows, storyId, t) ==
    IF \E r \in rows : r.story_id = storyId
    THEN rows
    ELSE rows \cup {Row(storyId, t)}

\* the purge with <= for <: a marker exactly one window old is deleted too
cleanupOldEntries_inclusive(rows, expiryDays, t) ==
    {r \in rows : ~(r.processed_at <= t - expiryDays)}

\* DELETE FROM processed_stories WHERE processed_at < $1
cleanupOldEntries(rows, expiryDays, t) ==
    LET expiryTime == t - expiryDays
    IN  {r \in rows : ~(r.processed_at < expiryTime)}

\* SELECT interest FROM interests ORDER BY id ASC
RECURSIVE orderById(_)
orderById(rows) ==
    IF rows = {} THEN <<>>
    ELSE LET first == CHOOSE r \in rows : \A q \in rows : r.id <= q.id
         IN  <<first>> \o orderById(rows \ {first})

loadInterests(rows) ==
    LET ordered == orderById(rows)
    IN  [k \in 1..Len(ordered) |-> ordered[k].interest]

\* SELECT term FROM not_interested ORDER BY id ASC
loadNotInterested(rows) ==
    LET ordered == orderById(rows)
    IN  [k \in 1..Len(ordered) |-> ordered[k].term]

\* INSERT INTO not_interested ... ON CONFLICT (term) DO NOTHING
addNotInterested(rows, term) ==
    IF \E row \in rows : row.term = term THEN rows
    ELSE LET ids == {row.id : row \in rows}
              last == IF ids = {} THEN 0 ELSE CHOOSE m \in ids : \A n \in ids : m >= n
         IN  rows \cup {[id |-> last + 1, term |-> term]}

\* DELETE FROM not_interested WHERE term = $1
removeNotInterested(rows, term) == {row \in rows : row.term /= term}

(***************************************************************************)
(* index.js (file-based): processed-stories.json.                          *)
(***************************************************************************)
\* fs.existsSync(HISTORY_FILE) ? JSON.parse(readFileSync) : {}
NoFile == [exists |-> FALSE, data |-> EmptyMap]
FileOf(history) == [exists |-> TRUE, data |-> history]

loadProcessedStoriesFile(file) == IF file.exists THEN file.data ELSE EmptyMap

cleanupOldEntriesFile(history, t) ==
    LET expiryTime == historyExpiryDays
    IN  [id \in {i \in DOMAIN history : ~(t - history[i] > expiryTime)} |-> history[id]]

markStoryAsProcessedFile(history, storyId, t) ==
    [id \in DOMAIN history \cup {storyId} |->
        IF id = storyId THEN t ELSE history[id]]

(***************************************************************************)
(* main(): the synchronous steps between fetchTopStories and the loop.     *)
(***************************************************************************)
hiringKeywords == {
    <<"i","s"," ","h","i","r","i","n","g">>,
    <<"h","i","r","i","n","g">>,
    <<"w","h","o"," ","w","a","n","t","s"," ","t","o"," ","b","e"," ","h","i","r","e","d">>,
    <<"w","h","o"," ","i","s"," ","h","i","r","i","n","g">>,
    <<"s","e","e","k","i","n","g">>,
    <<"w","e","'","r","e"," ","h","i","r","i","n","g">>,
    <<"j","o","i","n"," ","o","u","r"," ","t","e","a","m">>,
    <<"c","a","r","e","e","r","s"," ","a","t">>,
    <<"j","o","b"," ","o","p","e","n","i","n","g">> }

\* the hiring filter without toLowerCase()
isContentStory_caseSensitive(id) ==
    ~(\E keyword \in hiringKeywords : includes(title(id), keyword))

\* (story) => { const title = story.title.toLowerCase();
\*              return !hiringKeywords.some((keyword) => title.includes(keyword)); }
isContentStory(id) ==
    LET lowered == toLowerCase(title(id))
    IN  ~(\E keyword \in hiringKeywords : includes(lowered, keyword))

\* the processed filter that lets every story through
isUnprocessed_inverted(map, id) == id \in DOMAIN map

isUnprocessed_always(map, id) == TRUE

\* (story) => !processedStories[story.objectID]; processed_at is a BIGINT,
\* which the driver returns as a non-empty string, so a present key is truthy
isUnprocessed(map, id) == id \notin DOMAIN map

filterUnprocessed(all, map) ==
    LET Keep(id) == isUnprocessed(map, id)
    IN  SelectSeq(all, Keep)

\* the filter's verdict for every story of the source, computed once
CatalogueIds == 1..(NumStories + 2 * QuotaBatch)
contentStory == [id \in CatalogueIds |-> isContentStory(id)]

filterHiring_none(unprocessed) == unprocessed

filterHiring(unprocessed) ==
    LET Keep(id) == contentStory[id]
    IN  SelectSeq(unprocessed, Keep)

\* Array.prototype.sort((a, b) => b.points - a.points): stable, descending
RECURSIVE insertByPoints(_, _)
insertByPoints(sorted, id) ==
    IF sorted = <<>> THEN <<id>>
    ELSE IF points(Head(sorted)) >= points(id)
         THEN <<Head(sorted)>> \o insertByPoints(Tail(sorted), id)
         ELSE <<id>> \o sorted

\* the candidates left in fetch order
\* the sorted copy appended to the list it was made from
sortByPoints_appended(s) == s \o s

sortByPoints_unsorted(s) == s

RECURSIVE sortByPoints(_)
sortByPoints(s) ==
    IF s = <<>> THEN <<>>
    ELSE insertByPoints(sortByPoints(SubSeq(s, 1, Len(s) - 1)), s[Len(s)])

\* config.maxRelevantStories: config.js exports no such key
maxRelevantStories == Undefined

\* the head of "for (const story of stories)": the next await of the run
loopHead(storyList, p, nRelevant) ==
    IF p > Len(storyList) THEN "deliver"
    ELSE IF jsGreaterEq(nRelevant, maxRelevantStories) THEN "deliver"
    ELSE "classify"

\* checkRelevance: answer.trim(), then answer.toUpperCase().startsWith('YES')
isRelevant(ans) == startsWith(toUpperCase(trim(ans)), <<"Y","E","S">>)

RunAnswers == { <<"Y","E","S">>, <<"N","O">> }
Batches == InjectiveSeqs(StoryIds, MaxBatch)

(***************************************************************************)
(* Feedback records and the classifier's prompt.  The table feedback_history *)
(* is the sequence of its rows in insertion order.                          *)
(***************************************************************************)
FeedbackRow(n, storyId, ttl, rating, t) ==
    [id |-> n, story_id |-> storyId, title |-> ttl, rating |-> rating, created_at |-> t]

\* INSERT INTO feedback_history (...) VALUES (..., Date.now())
saveFeedback(rows, storyId, ttl, rating, t) ==
    Append(rows, FeedbackRow(Len(rows) + 1, storyId, ttl, rating, t))

\* ORDER BY created_at ASC (rows of one created_at in insertion order)
RECURSIVE insertByCreatedAt(_, _)
insertByCreatedAt(sorted, row) ==
    IF sorted = <<>> THEN <<row>>
    ELSE IF Head(sorted).created_at <= row.created_at
         THEN <<Head(sorted)>> \o insertByCreatedAt(Tail(sorted), row)
         ELSE <<row>> \o sorted

RECURSIVE orderByCreatedAt(_)
orderByCreatedAt(rows) ==
    IF rows = <<>> THEN <<>>
    ELSE insertByCreatedAt(orderByCreatedAt(SubSeq(rows, 1, Len(rows) - 1)),
                           rows[Len(rows)])

FeedbackItem(row) == [storyId |-> row.story_id, title |-> row.title, timestamp |-> row.created_at]

\* db.loadFeedback: the rows split by rating
loadFeedback(rows) ==
    LET ordered == orderByCreatedAt(rows)
        IsPositive(row) == row.rating = "positive"
        IsNegative(row) == row.rating = "negative"
        positive == SelectSeq(ordered, IsPositive)
        negative == SelectSeq(ordered, IsNegative)
    IN  [positive |-> [k \in 1..Len(positive) |-> FeedbackItem(positive[k])],
         negative |-> [k \in 1..Len(negative) |-> FeedbackItem(negative[k])]]

\* feedback-history.json: { positive: [...], negative: [...] }
NoFeedback == [positive |-> <<>>, negative |-> <<>>]
NoFeedbackFile == [exists |-> FALSE, data |-> NoFeedback]
FeedbackFileOf(feedback) == [exists |-> TRUE, data |-> feedback]

loadFeedbackFile(file) == IF file.exists THEN file.data ELSE NoFeedback

\* the numbered lines `${i + 1}. "${f.title}"` of one section
ExampleLines(items) == [i \in 1..Len(items) |-> [n |-> i, title |-> items[i].title]]

\* formatFeedbackExamples of the store-backed index.js: a section per rating
\* that has records, each listing every record
formatFeedbackExamples(feedback) ==
    [relevant |-> ExampleLines(feedback.positive),
     notRelevant |-> ExampleLines(feedback.negative)]

\* formatFeedbackExamples of the file-based index.js: slice(-5) per rating
formatFeedbackExamplesFile(feedback) ==
    [relevant |-> ExampleLines(sliceLast(feedback.positive, 5)),
     notRelevant |-> ExampleLines(sliceLast(feedback.negative, 5))]

NoPrompt == [variant |-> "none"]
NoVerdict == [returned |-> FALSE]

\* checkRelevance(story, articleContent, userInterests): the feedback is
\* loaded and formatted into the prompt, the oracle is asked once and answers
\* ans, and { isRelevant, reason: answer } is returned
checkRelevance(variant, ans) ==
    /\ prompt' = [variant |-> variant,
                  examples |-> IF variant = "db"
                               THEN formatFeedbackExamples(loadFeedback(feedback_history))
                               ELSE formatFeedbackExamplesFile(loadFeedbackFile(feedback_file))]
    /\ verdict' = [returned |-> TRUE, isRelevant |-> isRelevant(ans), reason |-> trim(ans)]
    /\ UNCHANGED <<now, storeVars, runVars, serverVars, envVars>>

(***************************************************************************)
(* The digest process: main() of the store-backed index.js.  Each action   *)
(* is the code from one await to the next; run[r].pc names the await the   *)
(* process is suspended at.                                                *)
(***************************************************************************)
NewRun == [
    variant |-> "db",
    pc |-> "idle",
    processedStories |-> EmptyMap,
    userInterests |-> <<>>,
    allStories |-> <<>>,
    unprocessedStories |-> <<>>,
    stories |-> <<>>,
    pos |-> 1,
    relevantSummaries |-> <<>>,
    isRelevant |-> FALSE,
    articleContent |-> Undefined,
    classified |-> <<>>,
    profiles |-> <<>>,
    accepted |-> <<>>,
    marked |-> <<>>,
    delivered |-> <<>>,
    failure |-> "none",
    poolClosed |-> FALSE,
    exitCode |-> 0,
    loadedRows |-> {},
    loadedAt |-> 0,
    loadOk |-> FALSE,
    cleanupOk |-> FALSE,
    cleanupReturn |-> [type |-> "none"] ]

\* await db.closePool() of the store-backed main, then the end of the
\* process: process.exit(1), or main returning (exit code 0)
Exit(r, code) ==
    run' = [run EXCEPT ![r].pc = "exited", ![r].exitCode = code,
                       ![r].poolClosed = (run[r].variant = "db")]

\* catch (error) { console.error('Error:', error); await db.closePool();
\*                 process.exit(1); } after the await named what rejected
Abort_poolLeftOpen(r, what) ==
    run' = [run EXCEPT ![r].pc = "exited", ![r].exitCode = 1, ![r].failure = what]

Abort(r, what) ==
    run' = [run EXCEPT ![r].pc = "exited", ![r].exitCode = 1, ![r].failure = what,
                       ![r].poolClosed = (run[r].variant = "db")]

\* a deployment runs one index.js: every process of a behaviour is of the
\* variant of the first one
Deployed(variant) == starts = 0 \/ \A q \in DOMAIN run : run[q].variant = variant

\* a process that has run to its end by the time it is handed over
spawnProcess_awaited(variant) == [NewRun EXCEPT !.variant = variant, !.pc = "exited"]

\* a new process of index.js: nothing of main() has run yet
spawnProcess(variant) == [NewRun EXCEPT !.variant = variant, !.pc = "load"]

\* node index.js of the store-backed variant takes the process slot r
spawn(r) ==
    /\ run[r].pc \in {"idle", "exited"}
    /\ starts < MaxStarts
    /\ Deployed("db")
    /\ starts' = starts + 1
    /\ run' = [run EXCEPT ![r] = spawnProcess("db")]

\* node index.js: a new process started by cron or from a shell
StartRun(r) ==
    /\ spawn(r)
    /\ UNCHANGED <<now, storeVars, serverVars, classifierVars, envVars>>

\* const processedStories = await db.loadProcessedStories();
\* (ok = FALSE: the query rejects and the catch returns {})
LoadProcessed_raises(r, ok) ==
    /\ run[r].pc = "load"
    /\ IF ok
       THEN run' = [run EXCEPT
               ![r].pc = "cleanup",
               ![r].processedStories = loadProcessedStories(processed_stories),
               ![r].loadedRows = processed_stories,
               ![r].loadedAt = now,
               ![r].loadOk = TRUE]
       ELSE Abort(r, "load")
    /\ UNCHANGED <<now, storeVars, starts, serverVars, classifierVars, envVars>>

LoadProcessed(r, ok) ==
    /\ run[r].pc = "load"
    /\ run' = [run EXCEPT
           ![r].pc = "cleanup",
           ![r].processedStories =
               IF ok THEN loadProcessedStories(processed_stories) ELSE EmptyMap,
           ![r].loadedRows = processed_stories,
           ![r].loadedAt = now,
           ![r].loadOk = ok]
    /\ UNCHANGED <<now, storeVars, starts, serverVars, classifierVars, envVars>>

\* await db.cleanupOldEntries(config.historyExpiryDays);
\* (ok = FALSE: the DELETE rejects and the catch logs the error)
CleanupProcessed(r, ok) ==
    /\ run[r].pc = "cleanup"
    /\ processed_stories' =
          IF ok THEN cleanupOldEntries(processed_stories, historyExpiryDays, now)
          ELSE processed_stories
    /\ run' = [run EXCEPT ![r].pc = "interests", ![r].cleanupOk = ok,
                            ![r].cleanupReturn = [type |-> "undefined"]]
    /\ UNCHANGED <<now, not_interested, feedback_history, interests, history_file, feedback_file,
                   starts, serverVars, classifierVars, envVars>>

\* the check that lets a run go on without interests
noInterests_never(loaded) == FALSE

\* interests.length === 0
noInterests(loaded) == Len(loaded) = 0

\* const interests = await db.loadInterests(); if (interests.length === 0)
\* { console.error(...); await db.closePool(); process.exit(1); }
\* (ok = FALSE: the query rejects and the catch returns [])
LoadInterests(r, ok) ==
    /\ run[r].pc = "interests"
    /\ LET loaded == IF ok THEN loadInterests(interests) ELSE <<>>
       IN  IF noInterests(loaded)
           THEN Exit(r, 1)
           ELSE run' = [run EXCEPT ![r].pc = "fetch", ![r].userInterests = loaded]
    /\ UNCHANGED <<now, storeVars, starts, serverVars, classifierVars, envVars>>

\* const allStories = await fetchTopStories(); then the two filters and the sort
FetchTopStories(r, batch) ==
    /\ run[r].variant = "db"
    /\ run[r].pc = "fetch"
    /\ LET unprocessed == filterUnprocessed(batch, run[r].processedStories)
           sorted == sortByPoints(filterHiring(unprocessed))
       IN  run' = [run EXCEPT
               ![r].allStories = batch,
               ![r].unprocessedStories = unprocessed,
               ![r].stories = sorted,
               ![r].pos = 1,
               ![r].pc = loopHead(sorted, 1, 0)]
    /\ UNCHANGED <<now, storeVars, starts, serverVars, classifierVars, envVars>>

\* fetchTopStories rejects (network error): main's catch
FetchTopStoriesFails(r) ==
    /\ run[r].pc = "fetch"
    /\ Abort(r, "fetch")
    /\ UNCHANGED <<now, storeVars, starts, serverVars, classifierVars, envVars>>

\* what fetchArticleContent returns: the page's text, or null when
\* axios.get rejects or times out (its catch logs the error)
ArticleOutcomes == {"text", "null"}

\* the third argument of checkRelevance(story, articleContent, userInterests):
\* the local main loaded before the loop
classifierInterests_reloaded(r) == loadInterests(interests)

classifierInterests(r) == run[r].userInterests

\* what one call of checkRelevance puts into its prompt about the user:
\* "User interests: ${userInterests}" and the terms db.loadNotInterested()
\* returns to that call
profile(r) ==
    [interests |-> classifierInterests(r),
     notInterested |-> loadNotInterested(not_interested)]

\* fetchStoryWithComments, fetchArticleContent (which returns article), then
\* checkRelevance: the oracle answers ans
CheckRelevance(r, article, ans) ==
    /\ run[r].variant = "db"
    /\ run[r].pc = "classify"
    /\ LET story == run[r].stories[run[r].pos]
       IN  run' = [run EXCEPT
               ![r].articleContent = article,
               ![r].classified = Append(@, story),
               ![r].profiles = Append(@, profile(r)),
               ![r].accepted = IF isRelevant(ans) THEN Append(@, story) ELSE @,
               ![r].isRelevant = isRelevant(ans),
               ![r].pc = IF isRelevant(ans) THEN "summarize" ELSE "mark"]
    /\ UNCHANGED <<now, storeVars, starts, serverVars, classifierVars, envVars>>

\* fetchStoryWithComments rejects before the story reaches checkRelevance
FetchStoryFails(r) ==
    /\ run[r].pc = "classify"
    /\ Abort(r, "comments")
    /\ UNCHANGED <<now, storeVars, starts, serverVars, classifierVars, envVars>>

\* openai.chat.completions.create rejects inside checkRelevance
OracleFails(r) ==
    /\ run[r].pc = "classify"
    /\ run' = [run EXCEPT
           ![r].classified = Append(@, run[r].stories[run[r].pos]),
           ![r].profiles = Append(@, profile(r)),
           ![r].pc = "exited",
           ![r].exitCode = 1,
           ![r].failure = "oracle",
           ![r].poolClosed = (run[r].variant = "db")]
    /\ UNCHANGED <<now, storeVars, starts, serverVars, classifierVars, envVars>>

\* await summarizeStory(...); relevantSummaries.push(...)
SummarizeStory(r) ==
    /\ run[r].variant = "db"
    /\ run[r].pc = "summarize"
    /\ run' = [run EXCEPT
           ![r].relevantSummaries = Append(@, run[r].stories[run[r].pos]),
           ![r].pc = "mark"]
    /\ UNCHANGED <<now, storeVars, starts, serverVars, classifierVars, envVars>>

\* one of summarizeStory's two completions rejects
SummarizeStoryFails(r) ==
    /\ run[r].pc = "summarize"
    /\ Abort(r, "enrichment")
    /\ UNCHANGED <<now, storeVars, starts, serverVars, classifierVars, envVars>>

\* await db.markStoryAsProcessed(story.objectID); the delay; the loop head
\* (ok = FALSE: the INSERT rejects and the catch logs the error)
MarkProcessed(r, ok) ==
    /\ run[r].pc = "mark"
    /\ processed_stories' =
           IF ok THEN markStoryAsProcessed(processed_stories,
                                           run[r].stories[run[r].pos], now)
           ELSE processed_stories
    /\ run' = [run EXCEPT
           ![r].marked = IF ok THEN Append(@, run[r].stories[run[r].pos]) ELSE @,
           ![r].articleContent = Undefined,
           ![r].pos = @ + 1,
           ![r].pc = loopHead(run[r].stories, run[r].pos + 1,
                              Len(run[r].relevantSummaries))]
    /\ UNCHANGED <<now, not_interested, feedback_history, interests, history_file, feedback_file,
                   starts, serverVars, classifierVars, envVars>>

\* the delivery guard that lets an empty digest through
hasSummaries_always(relevantSummaries) == TRUE

\* relevantSummaries.length > 0
hasSummaries(relevantSummaries) == Len(relevantSummaries) > 0

\* if (relevantSummaries.length > 0) await deliverDigest(relevantSummaries);
\* await db.closePool();
DeliverDigest(r) ==
    /\ run[r].pc = "deliver"
    /\ IF hasSummaries(run[r].relevantSummaries)
       THEN run' = [run EXCEPT
                ![r].delivered = Append(@, run[r].relevantSummaries),
                ![r].pc = "exited",
                ![r].exitCode = 0,
                ![r].poolClosed = (run[r].variant = "db")]
       ELSE Exit(r, 0)
    /\ UNCHANGED <<now, storeVars, starts, serverVars, classifierVars, envVars>>

\* resend.emails.send rejects: main's catch
DeliverDigestFails(r) ==
    /\ run[r].pc = "deliver"
    /\ hasSummaries(run[r].relevantSummaries)
    /\ Abort(r, "delivery")
    /\ UNCHANGED <<now, storeVars, starts, serverVars, classifierVars, envVars>>

\* time passes: the clock is read on the first two days and from one
\* expiry window after the first day on
\* the process is killed at one of its awaits (SIGKILL: no handler runs, the
\* catch block and closePool are skipped); a query the store has answered
\* stays committed, one it has not answered is covered by the step before
Kill(r) ==
    /\ run[r].pc \notin {"idle", "exited"}
    /\ run' = [run EXCEPT ![r].pc = "exited", ![r].exitCode = 137,
                          ![r].failure = "killed"]
    /\ UNCHANGED <<now, storeVars, starts, serverVars, classifierVars, envVars>>

Times == {1, 2} \cup ((1 + historyExpiryDays)..MaxTime)

Tick ==
    /\ \E t \in Times :
        /\ t > now
        /\ now' = t
    /\ UNCHANGED <<storeVars, runVars, serverVars, classifierVars, envVars>>

(***************************************************************************)
(* The digest process of the file-based index.js.  Loading and cleaning    *)
(* the history are synchronous, and so is markStoryAsProcessed, which runs *)
(* in the step that ends the iteration.                                    *)
(***************************************************************************)
\* (story) => !processedStories[story.objectID]; the values are numbers
isUnprocessedFile(history, id) == id \notin DOMAIN history \/ history[id] = 0

filterUnprocessedFile(all, history) ==
    LET Keep(id) == isUnprocessedFile(history, id)
    IN  SelectSeq(all, Keep)

loopHeadFile(storyList, p) == IF p > Len(storyList) THEN "deliver" ELSE "classify"

\* let processedStories = loadProcessedStories();
\* processedStories = cleanupOldEntries(processedStories);
\* (readOk = FALSE: JSON.parse throws and the catch returns {};
\*  saveOk = FALSE: writeFileSync throws and the catch logs the error)
FileStartRun(r, readOk, saveOk) ==
    /\ run[r].pc \in {"idle", "exited"}
    /\ starts < MaxStarts
    /\ Deployed("file")
    /\ starts' = starts + 1
    /\  LET loaded == IF readOk THEN loadProcessedStoriesFile(history_file) ELSE EmptyMap
            cleaned == cleanupOldEntriesFile(loaded, now)
        IN  /\ run' = [run EXCEPT ![r] = [NewRun EXCEPT
                    !.variant = "file",
                    !.pc = "fetch",
                    !.processedStories = cleaned,
                    !.loadedRows = {Row(id, loaded[id]) : id \in DOMAIN loaded},
                    !.loadedAt = now,
                    !.loadOk = readOk,
                    !.cleanupOk = TRUE,
                    !.cleanupReturn = [type |-> "object", value |-> cleaned]]]
            /\ history_file' =
                 IF cleaned /= loaded /\ saveOk THEN FileOf(cleaned) ELSE history_file
    /\ UNCHANGED <<now, not_interested, processed_stories, feedback_history, interests, feedback_file,
                   serverVars, classifierVars, envVars>>

\* const allStories = await fetchTopStories(); then the processed filter
FileFetchTopStories(r, batch) ==
    /\ run[r].variant = "file"
    /\ run[r].pc = "fetch"
    /\ LET unprocessed == filterUnprocessedFile(batch, run[r].processedStories)
       IN  run' = [run EXCEPT
               ![r].allStories = batch,
               ![r].unprocessedStories = unprocessed,
               ![r].stories = unprocessed,
               ![r].pos = 1,
               ![r].pc = loopHeadFile(unprocessed, 1)]
    /\ UNCHANGED <<now, storeVars, starts, serverVars, classifierVars, envVars>>

\* checkRelevance; a story that is not relevant is marked in the same step
FileCheckRelevance(r, ans, saveOk) ==
    /\ run[r].variant = "file"
    /\ run[r].pc = "classify"
    /\ IF isRelevant(ans)
       THEN /\ run' = [run EXCEPT
                   ![r].classified = Append(@, run[r].stories[run[r].pos]),
                   ![r].accepted = Append(@, run[r].stories[run[r].pos]),
                   ![r].isRelevant = TRUE,
                   ![r].pc = "summarize"]
            /\ UNCHANGED history_file
       ELSE LET marked == markStoryAsProcessedFile(run[r].processedStories,
                                                   run[r].stories[run[r].pos], now)
            IN  /\ history_file' = IF saveOk THEN FileOf(marked) ELSE history_file
                /\ run' = [run EXCEPT
                       ![r].classified = Append(@, run[r].stories[run[r].pos]),
                       ![r].isRelevant = FALSE,
                       ![r].processedStories = marked,
                       ![r].marked = IF saveOk
                                     THEN Append(@, run[r].stories[run[r].pos]) ELSE @,
                       ![r].pos = @ + 1,
                       ![r].pc = loopHeadFile(run[r].stories, run[r].pos + 1)]
    /\ UNCHANGED <<now, not_interested, processed_stories, feedback_history, interests, feedback_file,
                   starts, serverVars, classifierVars, envVars>>

\* await summarizeStory(...); relevantSummaries.push(...); markStoryAsProcessed
FileSummarizeStory(r, saveOk) ==
    /\ run[r].variant = "file"
    /\ run[r].pc = "summarize"
    /\  LET story == run[r].stories[run[r].pos]
            marked == markStoryAsProcessedFile(run[r].processedStories, story, now)
        IN  /\ history_file' = IF saveOk THEN FileOf(marked) ELSE history_file
            /\ run' = [run EXCEPT
                   ![r].relevantSummaries = Append(@, story),
                   ![r].processedStories = marked,
                   ![r].marked = IF saveOk THEN Append(@, story) ELSE @,
                   ![r].pos = @ + 1,
                   ![r].pc = loopHeadFile(run[r].stories, run[r].pos + 1)]
    /\ UNCHANGED <<now, not_interested, processed_stories, feedback_history, interests, feedback_file,
                   starts, serverVars, classifierVars, envVars>>

NextFile ==
    \/ Tick
    \/ \E r \in DOMAIN run :
        \/ \E readOk \in BOOLEAN, saveOk \in BOOLEAN : FileStartRun(r, readOk, saveOk)
        \/ \E batch \in Batches : FileFetchTopStories(r, batch)
        \/ FetchTopStoriesFails(r)
        \/ \E ans \in RunAnswers, saveOk \in BOOLEAN : FileCheckRelevance(r, ans, saveOk)
        \/ FetchStoryFails(r)
        \/ OracleFails(r)
        \/ \E saveOk \in BOOLEAN : FileSummarizeStory(r, saveOk)
        \/ SummarizeStoryFails(r)
        \/ DeliverDigest(r)
        \/ DeliverDigestFails(r)

(***************************************************************************)
(* The feedback server.  GET /feedback of feedback-server.js (table) and   *)
(* of the file-based server (feedback-history.json); GET /interests and    *)
(* POST /interests, whose saveInterests runs one query per step inside a   *)
(* transaction.  One replace is in flight at a time.                       *)
(***************************************************************************)
NoReq == [endpoint |-> "none", server |-> "none"]
NoResp == [status |-> 0]
NoTxn == [phase |-> "none"]

\* !v of a query or body parameter: absent or the empty string
falsy(v) == v = Undefined \/ v = ""

\* the two checks of GET /feedback: the status the handler answers with
feedbackStatus_ratingUnchecked(story, rating) ==
    IF falsy(story) \/ falsy(rating) THEN 400 ELSE 200

feedbackStatus(story, rating) ==
    IF falsy(story) \/ falsy(rating) THEN 400
    ELSE IF rating \notin {"positive", "negative"} THEN 400
    ELSE 200

\* title || 'Unknown': the title parameter is a sequence of characters, the
\* empty one when the query has no title or an empty one
titleOrUnknown(ttl) == IF ttl = <<>> THEN <<"U","n","k","n","o","w","n">> ELSE ttl

\* the percent escapes of the characters the titles hold: %20 and %25
Escapes == [e \in {<<"2","0">>, <<"2","5">>} |-> IF e = <<"2","0">> THEN " " ELSE "%"]

\* decodeURIComponent: every %XX is replaced by its character; a % that is
\* not followed by two hexadecimal digits throws URIError
RECURSIVE decodeURIComponent(_)
decodeURIComponent(s) ==
    IF s = <<>> THEN [threw |-> FALSE, text |-> <<>>]
    ELSE IF Head(s) /= "%"
    THEN LET rest == decodeURIComponent(Tail(s))
         IN  IF rest.threw THEN rest
             ELSE [threw |-> FALSE, text |-> <<Head(s)>> \o rest.text]
    ELSE IF Len(s) < 3 \/ SubSeq(s, 2, 3) \notin DOMAIN Escapes
    THEN [threw |-> TRUE]
    ELSE LET rest == decodeURIComponent(SubSeq(s, 4, Len(s)))
         IN  IF rest.threw THEN rest
             ELSE [threw |-> FALSE, text |-> <<Escapes[SubSeq(s, 2, 3)]>> \o rest.text]

\* a deployment runs one of the two servers: every request of a behaviour
\* is received by the server that received the first one
ServerDeployed(server) == req.server \in {"none", server}

FeedbackRequest(server, story, rating, ttl) ==
    [endpoint |-> "/feedback", server |-> server,
     story |-> story, rating |-> rating, title |-> ttl]

\* app.get('/feedback') of feedback-server.js.  Express has decoded the
\* query string; the handler decodes the title once more.  When that throws,
\* the async handler's promise rejects before saveFeedback is called:
\* Express 4 sends no response, Express 5 answers 500.
\* (ok = FALSE: the INSERT rejects and saveFeedback's catch logs the error)
GetFeedback(story, rating, ttl, ok) ==
    /\ requests < MaxRequests
    /\ ServerDeployed("db")
    /\ requests' = requests + 1
    /\ req' = FeedbackRequest("db", story, rating, ttl)
    /\ LET decoded == decodeURIComponent(titleOrUnknown(ttl))
       IN  IF feedbackStatus(story, rating) /= 200
           THEN /\ resp' = [status |-> feedbackStatus(story, rating)]
                /\ UNCHANGED feedback_history
           ELSE IF decoded.threw
           THEN /\ resp' \in {NoResp, [status |-> 500]}
                /\ UNCHANGED feedback_history
           ELSE /\ resp' = [status |-> 200]
                /\ feedback_history' =
                      IF ok THEN saveFeedback(feedback_history, story, decoded.text,
                                              rating, now)
                      ELSE feedback_history
    /\ UNCHANGED <<now, not_interested, processed_stories, interests, history_file, feedback_file,
                   runVars, txn, classifierVars, envVars>>

\* feedback[rating].push(entry)
pushFeedback(feedback, story, ttl, rating, t) ==
    LET entry == [storyId |-> story, title |-> ttl, timestamp |-> t]
    IN  [feedback EXCEPT ![rating] = Append(@, entry)]

\* app.get('/feedback') of the file-based server; a title that
\* decodeURIComponent rejects throws out of the handler after loadFeedback
\* and Express answers 500
\* (readOk = FALSE: JSON.parse throws and loadFeedback returns the default;
\*  saveOk = FALSE: writeFileSync throws and saveFeedback logs the error)
GetFeedbackFile(story, rating, ttl, readOk, saveOk) ==
    /\ requests < MaxRequests
    /\ ServerDeployed("file")
    /\ requests' = requests + 1
    /\ req' = FeedbackRequest("file", story, rating, ttl)
    /\ LET decoded == decodeURIComponent(titleOrUnknown(ttl))
           feedback == IF readOk THEN loadFeedbackFile(feedback_file) ELSE NoFeedback
       IN  IF feedbackStatus(story, rating) /= 200
           THEN /\ resp' = [status |-> feedbackStatus(story, rating)]
                /\ UNCHANGED feedback_file
           ELSE IF decoded.threw
           THEN /\ resp' = [status |-> 500]
                /\ UNCHANGED feedback_file
           ELSE /\ resp' = [status |-> 200]
                /\ feedback_file' =
                      IF saveOk
                      THEN FeedbackFileOf(pushFeedback(feedback, story, decoded.text,
                                                       rating, now))
                      ELSE feedback_file
    /\ UNCHANGED <<now, not_interested, processed_stories, feedback_history, interests, history_file,
                   runVars, txn, classifierVars, envVars>>

\* the check without its first half: an unset secret matches a missing one
unauthorized_unconfigured(secret) == secret /= CRON_SECRET

\* !process.env.CRON_SECRET || secret !== process.env.CRON_SECRET
unauthorized(secret) == falsy(CRON_SECRET) \/ secret /= CRON_SECRET

\* app.get('/health'): loadFeedback returns { positive: [], negative: [] }
\* when its query rejects
GetHealth(ok) ==
    /\ requests < MaxRequests
    /\ ServerDeployed("db")
    /\ requests' = requests + 1
    /\ req' = [endpoint |-> "/health", server |-> "db", method |-> "GET"]
    /\ LET feedback == IF ok THEN loadFeedback(feedback_history) ELSE NoFeedback
       IN  resp' = [status |-> 200, queryOk |-> ok,
                    feedbackCount |-> [positive |-> Len(feedback.positive),
                                       negative |-> Len(feedback.negative)]]
    /\ UNCHANGED <<now, storeVars, runVars, txn, classifierVars, envVars>>

\* app.get('/interests'): loadInterests returns [] when its query rejects
GetInterests(ok) ==
    /\ requests < MaxRequests
    /\ ServerDeployed("db")
    /\ requests' = requests + 1
    /\ req' = [endpoint |-> "/interests", server |-> "db", method |-> "GET"]
    /\ resp' = [status |-> 200, queryOk |-> ok,
                interests |-> IF ok THEN loadInterests(interests) ELSE <<>>]
    /\ UNCHANGED <<now, storeVars, runVars, txn, classifierVars, envVars>>

\* app.post('/interests') up to saveInterests' first query: the secret, the
\* Array.isArray check, pool.connect() and BEGIN
PostInterests(secret, body, ok) ==
    /\ requests < MaxRequests
    /\ ServerDeployed("db")
    /\ txn.phase = "none"
    /\ requests' = requests + 1
    /\ req' = [endpoint |-> "/interests", server |-> "db", method |-> "POST",
               secret |-> secret, body |-> body]
    /\ IF unauthorized(secret)
       THEN resp' = [status |-> 401] /\ UNCHANGED txn
       ELSE IF ~body.isArray
       THEN resp' = [status |-> 400] /\ UNCHANGED txn
       ELSE IF ~ok
       THEN resp' = [status |-> 500] /\ UNCHANGED txn
       ELSE /\ txn' = [phase |-> "begun", before |-> interests, rows |-> interests,
                       new |-> body.items, todo |-> body.items]
            /\ UNCHANGED resp
    /\ UNCHANGED <<now, storeVars, runVars, classifierVars, envVars>>

\* the rows a ROLLBACK leaves committed, given the transaction's own rows
rollback_keepsWork(committed, working) == working

rollback(committed, working) == committed

\* catch (error) { await client.query('ROLLBACK'); throw error; }, then the
\* handler's catch: res.status(500)
Rollback ==
    /\ interests' = rollback(interests, txn.rows)
    /\ txn' = NoTxn
    /\ resp' = [status |-> 500]

NextInterestId(rows) ==
    LET ids == {row.id : row \in rows \cup interests}
    IN  IF ids = {} THEN 1 ELSE 1 + (CHOOSE m \in ids : \A n \in ids : m >= n)

\* await client.query('DELETE FROM interests')
TxnDelete(ok) ==
    /\ txn.phase = "begun"
    /\ IF ok
       THEN /\ txn' = [txn EXCEPT !.phase = "deleted", !.rows = {}]
            /\ UNCHANGED <<interests, resp>>
       ELSE Rollback
    /\ UNCHANGED <<now, not_interested, processed_stories, feedback_history, history_file,
                   feedback_file, runVars, req, requests, classifierVars, envVars>>

\* await client.query('INSERT INTO interests ...') for the next element;
\* interest is UNIQUE, so a term the transaction already inserted rejects
TxnInsert(ok) ==
    /\ txn.phase = "deleted"
    /\ txn.todo /= <<>>
    /\ LET term == Head(txn.todo)
       IN  IF ok /\ ~(\E row \in txn.rows : row.interest = term)
           THEN /\ txn' = [txn EXCEPT
                        !.rows = @ \cup {[id |-> NextInterestId(txn.rows),
                                          interest |-> term]},
                        !.todo = Tail(@)]
                /\ UNCHANGED <<interests, resp>>
           ELSE Rollback
    /\ UNCHANGED <<now, not_interested, processed_stories, feedback_history, history_file,
                   feedback_file, runVars, req, requests, classifierVars, envVars>>

\* await client.query('COMMIT'); a COMMIT that rejects has committed nothing
TxnCommit(ok) ==
    /\ txn.phase = "deleted"
    /\ txn.todo = <<>>
    /\ IF ok
       THEN /\ interests' = txn.rows
            /\ txn' = NoTxn
            /\ resp' = [status |-> 200, interests |-> txn.new]
       ELSE Rollback
    /\ UNCHANGED <<now, not_interested, processed_stories, feedback_history, history_file,
                   feedback_file, runVars, req, requests, classifierVars, envVars>>

\* app.get('/trigger-digest'): the secret check, spawn('node', ['index.js'])
\* and res.json({ status: 'started' }) run in one synchronous handler
TriggerDigest(secret) ==
    /\ requests < MaxRequests
    /\ ServerDeployed("db")
    /\ requests' = requests + 1
    /\ req' = [endpoint |-> "/trigger-digest", server |-> "db", method |-> "GET",
               secret |-> secret]
    /\ \/ /\ unauthorized(secret)
          /\ resp' = [status |-> 401]
          /\ UNCHANGED runVars
       \/ /\ ~unauthorized(secret)
          /\ \E r \in DOMAIN run : spawn(r)
          /\ resp' = [status |-> 200, body |-> "started"]
    /\ UNCHANGED <<now, storeVars, txn, classifierVars, envVars>>

\* INSERT INTO interests ... ON CONFLICT (interest) DO NOTHING
addInterest(rows, interest) ==
    IF \E row \in rows : row.interest = interest THEN rows
    ELSE rows \cup {[id |-> NextInterestId(rows), interest |-> interest]}

\* DELETE FROM interests WHERE interest = $1
removeInterest(rows, interest) == {row \in rows : row.interest /= interest}

\* !interest || typeof interest !== 'string'
notAString(interest) == interest.type /= "string" \/ falsy(interest.value)

\* app.post('/interests/add'): db.addInterest, then db.loadInterests for
\* the answer (ok = FALSE: the INSERT rejects and addInterest's catch logs
\* the error; loadOk = FALSE: the SELECT rejects and loadInterests returns [])
AddInterest(secret, interest, ok, loadOk) ==
    /\ requests < MaxRequests
    /\ ServerDeployed("db")
    /\ txn.phase = "none"
    /\ requests' = requests + 1
    /\ req' = [endpoint |-> "/interests/add", server |-> "db", method |-> "POST",
               secret |-> secret, interest |-> interest]
    /\ IF unauthorized(secret)
       THEN resp' = [status |-> 401] /\ UNCHANGED interests
       ELSE IF notAString(interest)
       THEN resp' = [status |-> 400] /\ UNCHANGED interests
       ELSE /\ interests' = IF ok THEN addInterest(interests, interest.value)
                             ELSE interests
            /\ resp' = [status |-> 200,
                        interests |-> IF loadOk THEN loadInterests(interests')
                                      ELSE <<>>]
    /\ UNCHANGED <<now, not_interested, processed_stories, feedback_history, history_file,
                   feedback_file, runVars, txn, classifierVars, envVars>>

\* app.delete('/interests/:interest'): db.removeInterest, then
\* db.loadInterests for the answer
RemoveInterest(secret, interest, ok, loadOk) ==
    /\ requests < MaxRequests
    /\ ServerDeployed("db")
    /\ txn.phase = "none"
    /\ requests' = requests + 1
    /\ req' = [endpoint |-> "/interests/:interest", server |-> "db",
               method |-> "DELETE", secret |-> secret, interest |-> interest]
    /\ IF unauthorized(secret)
       THEN resp' = [status |-> 401] /\ UNCHANGED interests
       ELSE /\ interests' = IF ok THEN removeInterest(interests, interest)
                             ELSE interests
            /\ resp' = [status |-> 200,
                        interests |-> IF loadOk THEN loadInterests(interests')
                                      ELSE <<>>]
    /\ UNCHANGED <<now, not_interested, processed_stories, feedback_history, history_file,
                   feedback_file, runVars, txn, classifierVars, envVars>>

\* db.addNotInterested(term) and db.removeNotInterested(term), called by the
\* server process for a request that manages an excluded term (the digest's
\* links to ${feedbackUrl}/manage-term); ok = FALSE: the query rejects and
\* the function's catch logs the error
AddNotInterested(term, ok) ==
    /\ requests < MaxRequests
    /\ ServerDeployed("db")
    /\ requests' = requests + 1
    /\ not_interested' = IF ok THEN addNotInterested(not_interested, term)
                          ELSE not_interested
    /\ UNCHANGED <<now, processed_stories, feedback_history, interests, history_file,
                   feedback_file, runVars, req, resp, txn, classifierVars, envVars>>

RemoveNotInterested(term, ok) ==
    /\ requests < MaxRequests
    /\ ServerDeployed("db")
    /\ requests' = requests + 1
    /\ not_interested' = IF ok THEN removeNotInterested(not_interested, term)
                          ELSE not_interested
    /\ UNCHANGED <<now, processed_stories, feedback_history, interests, history_file,
                   feedback_file, runVars, req, resp, txn, classifierVars, envVars>>

InitInterests == { {}, {[id |-> 1, interest |-> "AI"]} }

\* a fresh clock, no markers, no request received, nothing classified
InitFresh ==
    /\ now = 1
    /\ processed_stories = {}
    /\ not_interested = {}
    /\ history_file = NoFile
    /\ starts = 0
    /\ req = NoReq
    /\ resp = NoResp
    /\ txn = NoTxn
    /\ requests = 0
    /\ prompt = NoPrompt
    /\ verdict = NoVerdict

Init ==
    /\ InitFresh
    /\ feedback_history = <<>>
    /\ feedback_file = NoFeedbackFile
    /\ interests \in InitInterests
    /\ run = [r \in {1} |-> NewRun]
    /\ CRON_SECRET = Undefined

Next ==
    \/ Tick
    \/ \E r \in DOMAIN run :
        \/ StartRun(r)
        \/ \E ok \in BOOLEAN : LoadProcessed(r, ok)
        \/ \E ok \in BOOLEAN : CleanupProcessed(r, ok)
        \/ \E ok \in BOOLEAN : LoadInterests(r, ok)
        \/ \E batch \in Batches : FetchTopStories(r, batch)
        \/ FetchTopStoriesFails(r)
        \/ \E article \in ArticleOutcomes, ans \in RunAnswers :
                CheckRelevance(r, article, ans)
        \/ FetchStoryFails(r)
        \/ OracleFails(r)
        \/ SummarizeStory(r)
        \/ SummarizeStoryFails(r)
        \/ \E ok \in BOOLEAN : MarkProcessed(r, ok)
        \/ DeliverDigest(r)
        \/ DeliverDigestFails(r)

Spec == Init /\ [][Next]_vars

\* a deployment of either variant, one digest process at a time
InitBoth ==
    /\ Init
    /\ interests /= {}

SpecBoth == InitBoth /\ [][Next \/ NextFile]_vars

\* a deployment of either variant in which every step but the purge succeeds
NextPurge ==
    \/ Tick
    \/ \E r \in DOMAIN run :
        \/ StartRun(r)
        \/ LoadProcessed(r, TRUE)
        \/ \E ok \in BOOLEAN : CleanupProcessed(r, ok)
        \/ LoadInterests(r, TRUE)
        \/ \E batch \in Batches : FetchTopStories(r, batch)
        \/ \E ans \in RunAnswers : CheckRelevance(r, "text", ans)
        \/ SummarizeStory(r)
        \/ MarkProcessed(r, TRUE)
        \/ DeliverDigest(r)
        \/ \E saveOk \in BOOLEAN : FileStartRun(r, TRUE, saveOk)
        \/ \E batch \in Batches : FileFetchTopStories(r, batch)
        \/ \E ans \in RunAnswers : FileCheckRelevance(r, ans, TRUE)
        \/ FileSummarizeStory(r, TRUE)

SpecPurge == InitBoth /\ [][NextPurge]_vars

\* the file-based variant with two digest processes (cron and a manual
\* start) over one history file; every read and write of the file succeeds
InitOverlap ==
    /\ InitFresh
    /\ feedback_history = <<>>
    /\ feedback_file = NoFeedbackFile
    /\ interests = {}
    /\ run = [r \in {1, 2} |-> [NewRun EXCEPT !.variant = "file"]]
    /\ CRON_SECRET = Undefined

NextOverlap ==
    \/ Tick
    \/ \E r \in DOMAIN run :
        \/ FileStartRun(r, TRUE, TRUE)
        \/ \E batch \in Batches : FileFetchTopStories(r, batch)
        \/ \E ans \in RunAnswers : FileCheckRelevance(r, ans, TRUE)
        \/ FileSummarizeStory(r, TRUE)
        \/ DeliverDigest(r)

SpecFileOverlap == InitOverlap /\ [][NextOverlap]_vars

\* one store-backed run whose store queries succeed, offered QuotaBatch
\* stories none of which is a job post
QuotaStories == [k \in 1..QuotaBatch |-> k + k \div 2]

NextQuota ==
    \E r \in DOMAIN run :
        \/ StartRun(r)
        \/ LoadProcessed(r, TRUE)
        \/ CleanupProcessed(r, TRUE)
        \/ LoadInterests(r, TRUE)
        \/ FetchTopStories(r, QuotaStories)
        \/ \E ans \in RunAnswers : CheckRelevance(r, "text", ans)
        \/ SummarizeStory(r)
        \/ MarkProcessed(r, TRUE)
        \/ DeliverDigest(r)

SpecQuota == InitBoth /\ [][NextQuota]_vars

\* store-backed runs whose store reads succeed, offered up to MaxRank of
\* the first four stories that are not job posts (two of 7 points, two of
\* 5); every per-item step may fail
RankedIds == {id \in 1..6 : contentStory[id]}
RankBatches == InjectiveSeqs(RankedIds, MaxRank)

NextItems ==
    \E r \in DOMAIN run :
        \/ StartRun(r)
        \/ LoadProcessed(r, TRUE)
        \/ CleanupProcessed(r, TRUE)
        \/ LoadInterests(r, TRUE)
        \/ \E batch \in RankBatches : FetchTopStories(r, batch)
        \/ \E article \in ArticleOutcomes, ans \in RunAnswers :
                CheckRelevance(r, article, ans)
        \/ FetchStoryFails(r)
        \/ OracleFails(r)
        \/ SummarizeStory(r)
        \/ SummarizeStoryFails(r)
        \/ \E ok \in BOOLEAN : MarkProcessed(r, ok)
        \/ DeliverDigest(r)
        \/ DeliverDigestFails(r)

SpecItems == InitBoth /\ [][NextItems]_vars

\* checkRelevance over every feedback store of up to MaxFeedback records:
\* record k is the k-th created, and the table and the file hold the same
\* records
RatingSeqs == UNION {[1..n -> {"positive", "negative"}] : n \in 0..MaxFeedback}

StoryName(k) == "story " \o ToString(k)

TableOf(ratings) ==
    [k \in 1..Len(ratings) |->
        FeedbackRow(k, ToString(k), StoryName(k), ratings[k], k)]

RECURSIVE FeedbackOf(_)
FeedbackOf(rows) ==
    IF rows = <<>> THEN NoFeedback
    ELSE LET row == rows[Len(rows)]
         IN  pushFeedback(FeedbackOf(SubSeq(rows, 1, Len(rows) - 1)),
                          row.story_id, row.title, row.rating, row.created_at)

InitFormat ==
    /\ InitFresh
    /\ \E ratings \in RatingSeqs :
        /\ feedback_history = TableOf(ratings)
        /\ feedback_file = FeedbackFileOf(FeedbackOf(TableOf(ratings)))
    /\ interests = {}
    /\ run = [r \in {1} |-> NewRun]
    /\ CRON_SECRET = Undefined

\* one call per behaviour
NextFormat ==
    /\ ~verdict.returned
    /\ \E variant \in {"db", "file"} : checkRelevance(variant, <<"Y", "E", "S">>)

SpecFormat == InitFormat /\ [][NextFormat]_vars

\* checkRelevance over every oracle answer of up to MaxAnswerLen characters
AnswerChars == {"Y", "y", "E", "S", "N", "T", " ", "."}
Answers == UNION {[1..n -> AnswerChars] : n \in 0..MaxAnswerLen}

\* one call per behaviour
NextRelevance ==
    /\ ~verdict.returned
    /\ \E variant \in {"db", "file"}, ans \in Answers : checkRelevance(variant, ans)

SpecRelevance == Init /\ [][NextRelevance]_vars

\* the feedback server under up to MaxRequests requests
Stories == {Undefined, "", "1"}
Ratings == {Undefined, "", "positive", "negative", "maybe", "Positive"}
Titles == { <<>>,
            <<"G","o"," ","2">>,
            <<"G","o","%","2","0","2">>,
            <<"1","0","0","%">> }
Secrets == {Undefined, "s3cret", "guess"}
Terms == {"AI", "ML"}
Bodies ==
    {[isArray |-> FALSE]} \cup
    {[isArray |-> TRUE, items |-> items] :
        items \in UNION {[1..n -> Terms] : n \in 0..MaxTerms}}

InitServer ==
    /\ InitFresh
    /\ feedback_history = <<>>
    /\ feedback_file = NoFeedbackFile
    /\ interests \in InitInterests
    /\ run = [r \in {1} |-> NewRun]
    /\ CRON_SECRET \in {Undefined, "s3cret"}

\* GET /feedback of either server
NextFeedback ==
    \/ \E story \in Stories, rating \in Ratings, ttl \in Titles, ok \in BOOLEAN :
            GetFeedback(story, rating, ttl, ok)
    \/ \E story \in Stories, rating \in Ratings, ttl \in Titles,
          readOk \in BOOLEAN, saveOk \in BOOLEAN :
            GetFeedbackFile(story, rating, ttl, readOk, saveOk)

SpecFeedback == InitServer /\ [][NextFeedback]_vars

\* GET /interests and POST /interests
NextInterests ==
    \/ \E ok \in BOOLEAN : GetInterests(ok)
    \/ \E secret \in Secrets, body \in Bodies, ok \in BOOLEAN :
            PostInterests(secret, body, ok)
    \/ \E ok \in BOOLEAN : TxnDelete(ok)
    \/ \E ok \in BOOLEAN : TxnInsert(ok)
    \/ \E ok \in BOOLEAN : TxnCommit(ok)

SpecInterests == InitServer /\ [][NextInterests]_vars

\* the body field interest of POST /interests/add
AddBodies ==
    {[type |-> "undefined", value |-> Undefined], [type |-> "number", value |-> "7"]}
        \cup {[type |-> "string", value |-> term] : term \in Terms \cup {""}}

\* the four endpoints that check the secret; the processes GET
\* /trigger-digest spawns are left at their start
NextGuarded ==
    \/ \E secret \in Secrets : TriggerDigest(secret)
    \/ \E secret \in Secrets, body \in Bodies, ok \in BOOLEAN :
            PostInterests(secret, body, ok)
    \/ \E ok \in BOOLEAN : TxnDelete(ok)
    \/ \E ok \in BOOLEAN : TxnInsert(ok)
    \/ \E ok \in BOOLEAN : TxnCommit(ok)
    \/ \E secret \in Secrets, interest \in AddBodies, ok \in BOOLEAN, loadOk \in BOOLEAN :
            AddInterest(secret, interest, ok, loadOk)
    \/ \E secret \in Secrets, interest \in Terms, ok \in BOOLEAN, loadOk \in BOOLEAN :
            RemoveInterest(secret, interest, ok, loadOk)

SpecGuarded == InitServer /\ [][NextGuarded]_vars

\* GET /trigger-digest and the steps of the processes it spawns, whose
\* store queries and collaborator calls succeed
RunStep(r) ==
    \/ LoadProcessed(r, TRUE)
    \/ CleanupProcessed(r, TRUE)
    \/ LoadInterests(r, TRUE)
    \/ \E batch \in Batches : FetchTopStories(r, batch)
    \/ \E ans \in RunAnswers : CheckRelevance(r, "text", ans)
    \/ SummarizeStory(r)
    \/ MarkProcessed(r, TRUE)
    \/ DeliverDigest(r)

ProcessIds == {1}

NextTrigger ==
    \/ \E secret \in Secrets : TriggerDigest(secret)
    \/ \E r \in ProcessIds : RunStep(r)

\* the operating system schedules every spawned process, and each of its
\* awaits settles
SpecTrigger ==
    /\ InitServer
    /\ [][NextTrigger]_vars
    /\ \A r \in ProcessIds : WF_vars(RunStep(r))

\* one store-backed digest process at a time, offered the two stories of 7
\* points, while the server adds, removes and replaces interests and
\* excluded terms; every store query succeeds
ProfileBatches == InjectiveSeqs({1, 4}, MaxBatch)
ProfileBodies == {[isArray |-> TRUE, items |-> <<term>>] : term \in Terms}

InitProfile ==
    /\ InitServer
    /\ interests /= {}
    /\ CRON_SECRET = "s3cret"

NextProfile ==
    \/ \E r \in DOMAIN run :
            \/ StartRun(r)
            \/ LoadProcessed(r, TRUE)
            \/ CleanupProcessed(r, TRUE)
            \/ LoadInterests(r, TRUE)
            \/ \E batch \in ProfileBatches : FetchTopStories(r, batch)
            \/ \E ans \in RunAnswers : CheckRelevance(r, "text", ans)
            \/ SummarizeStory(r)
            \/ MarkProcessed(r, TRUE)
            \/ DeliverDigest(r)
    \/ \E term \in Terms :
            \/ AddInterest(CRON_SECRET, [type |-> "string", value |-> term], TRUE, TRUE)
            \/ RemoveInterest(CRON_SECRET, term, TRUE, TRUE)
            \/ AddNotInterested(term, TRUE)
            \/ RemoveNotInterested(term, TRUE)
    \/ \E body \in ProfileBodies : PostInterests(CRON_SECRET, body, TRUE)
    \/ TxnDelete(TRUE)
    \/ TxnInsert(TRUE)
    \/ TxnCommit(TRUE)

SpecProfile == InitProfile /\ [][NextProfile]_vars

\* two store-backed digest processes over one store: started by cron or by
\* GET /trigger-digest, each while the other may still be running; every
\* store query and collaborator call succeeds
InitProcesses ==
    /\ InitFresh
    /\ feedback_history = <<>>
    /\ feedback_file = NoFeedbackFile
    /\ interests = {[id |-> 1, interest |-> "AI"]}
    /\ run = [r \in {1, 2} |-> NewRun]
    /\ CRON_SECRET = "s3cret"

NextProcesses ==
    \/ TriggerDigest(CRON_SECRET)
    \/ \E r \in DOMAIN run :
            \/ StartRun(r)
            \/ LoadProcessed(r, TRUE)
            \/ CleanupProcessed(r, TRUE)
            \/ LoadInterests(r, TRUE)
            \/ \E batch \in ProfileBatches : FetchTopStories(r, batch)
            \/ \E ans \in RunAnswers : CheckRelevance(r, "text", ans)
            \/ SummarizeStory(r)
            \/ MarkProcessed(r, TRUE)
            \/ DeliverDigest(r)

SpecProcesses == InitProcesses /\ [][NextProcesses]_vars

\* store-backed digest processes started one after the other (the cron
\* schedule) in alternating process slots, with time passing between them;
\* the source returns stories 1 and 4, or story 4 alone
RestartBatches == {<<1, 4>>, <<4>>}

Idle == \A q \in DOMAIN run : run[q].pc \in {"idle", "exited"}

\* the load of the markers may fail, and a process may be killed at any
\* await
NextRestart ==
    \/ Tick /\ Idle
    \/ \E r \in DOMAIN run :
            \/ StartRun(r) /\ Idle /\ r = 1 + (starts % 2)
            \/ \E ok \in BOOLEAN : LoadProcessed(r, ok)
            \/ CleanupProcessed(r, TRUE)
            \/ LoadInterests(r, TRUE)
            \/ \E batch \in RestartBatches : FetchTopStories(r, batch)
            \/ \E ans \in RunAnswers : CheckRelevance(r, "text", ans)
            \/ SummarizeStory(r)
            \/ MarkProcessed(r, TRUE)
            \/ DeliverDigest(r)
            \/ Kill(r)

SpecRestart == InitProcesses /\ [][NextRestart]_vars

\* the load of the markers and the INSERT of a marker may fail, and the
\* delivery call may reject
NextRedeliver ==
    \/ Tick /\ Idle
    \/ \E r \in DOMAIN run :
            \/ StartRun(r) /\ Idle /\ r = 1 + (starts % 2)
            \/ \E ok \in BOOLEAN : LoadProcessed(r, ok)
            \/ CleanupProcessed(r, TRUE)
            \/ LoadInterests(r, TRUE)
            \/ \E batch \in RestartBatches : FetchTopStories(r, batch)
            \/ \E ans \in RunAnswers : CheckRelevance(r, "text", ans)
            \/ SummarizeStory(r)
            \/ \E ok \in BOOLEAN : MarkProcessed(r, ok)
            \/ DeliverDigest(r)
            \/ DeliverDigestFails(r)

SpecRedeliver == InitProcesses /\ [][NextRedeliver]_vars

\* digest processes of either variant, one at a time, and the store-backed
\* server's GET /feedback and GET /health: every load of the markers or of
\* the feedback may fail, everything else succeeds
NextLoads ==
    \/ \E r \in DOMAIN run :
            \/ StartRun(r)
            \/ \E ok \in BOOLEAN : LoadProcessed(r, ok)
            \/ CleanupProcessed(r, TRUE)
            \/ LoadInterests(r, TRUE)
            \/ \E batch \in Batches : FetchTopStories(r, batch)
            \/ \E ans \in RunAnswers : CheckRelevance(r, "text", ans)
            \/ SummarizeStory(r)
            \/ MarkProcessed(r, TRUE)
            \/ DeliverDigest(r)
            \/ \E readOk \in BOOLEAN : FileStartRun(r, readOk, TRUE)
            \/ \E batch \in Batches : FileFetchTopStories(r, batch)
            \/ \E ans \in RunAnswers : FileCheckRelevance(r, ans, TRUE)
            \/ FileSummarizeStory(r, TRUE)
    \/ \E rating \in {"positive", "negative"} : GetFeedback("1", rating, <<>>, TRUE)
    \/ \E ok \in BOOLEAN : GetHealth(ok)

SpecLoads == InitBoth /\ [][NextLoads]_vars

\* the Item Store operations of the two variants applied side by side: each
\* markStoryAsProcessed and each cleanupOldEntries is called on the table and
\* on the history file at the same moment, and every query and file access
\* succeeds
MarkBoth(storyId) ==
    /\ processed_stories' = markStoryAsProcessed(processed_stories, storyId, now)
    /\ history_file' = FileOf(markStoryAsProcessedFile(
                                  loadProcessedStoriesFile(history_file), storyId, now))
    /\ UNCHANGED <<now, not_interested, feedback_history, interests, feedback_file,
                   runVars, serverVars, classifierVars, envVars>>

CleanupBoth ==
    /\ processed_stories' = cleanupOldEntries(processed_stories, historyExpiryDays, now)
    /\ LET history == loadProcessedStoriesFile(history_file)
           cleaned == cleanupOldEntriesFile(history, now)
       IN  history_file' = IF cleaned /= history THEN FileOf(cleaned) ELSE history_file
    /\ UNCHANGED <<now, not_interested, feedback_history, interests, feedback_file,
                   runVars, serverVars, classifierVars, envVars>>

NextContract ==
    \/ Tick
    \/ \E storyId \in StoryIds : MarkBoth(storyId)
    \/ CleanupBoth

SpecContract == InitBoth /\ [][NextContract]_vars

\* runs of either variant, one at a time, over every batch of up to MaxRank
\* hits the source may answer with, the same id twice included (main takes
\* response.data.hits as they come); store reads and file accesses
\* succeed, the INSERT of a marker may fail
AnyBatches == UNION {[1..n -> {1, 3, 4}] : n \in 0..MaxRank}

NextOnce ==
    \E r \in DOMAIN run :
        \/ StartRun(r)
        \/ LoadProcessed(r, TRUE)
        \/ CleanupProcessed(r, TRUE)
        \/ LoadInterests(r, TRUE)
        \/ \E batch \in AnyBatches : FetchTopStories(r, batch)
        \/ \E ans \in RunAnswers : CheckRelevance(r, "text", ans)
        \/ SummarizeStory(r)
        \/ \E ok \in BOOLEAN : MarkProcessed(r, ok)
        \/ DeliverDigest(r)
        \/ FileStartRun(r, TRUE, TRUE)
        \/ \E batch \in AnyBatches : FileFetchTopStories(r, batch)
        \/ \E ans \in RunAnswers : FileCheckRelevance(r, ans, TRUE)
        \/ FileSummarizeStory(r, TRUE)

SpecOnce == InitBoth /\ [][NextOnce]_vars

\* every endpoint of the model
SpecServer == InitServer /\ [][NextFeedback \/ NextInterests \/ NextGuarded]_vars

(***************************************************************************)
(* Properties.                                                             *)
(***************************************************************************)
\* the markers that are not expired at time t: now - processedAt <= window
LiveIds(rows, t) ==
    {m.story_id : m \in {q \in rows : ~(t - q.processed_at > historyExpiryDays)}}

ExpiredRows(rows, t) == {q \in rows : t - q.processed_at > historyExpiryDays}

Touched(r) ==
    Range(run[r].classified) \cup Range(run[r].relevantSummaries)
        \cup UNION {Range(d) : d \in Range(run[r].delivered)}

C2_MarkerKeepsFirstTimestamp ==
    [][/\ \A id \in DOMAIN history_file.data \cap DOMAIN history_file'.data :
            ~(now' - history_file.data[id] > historyExpiryDays) =>
                history_file'.data[id] = history_file.data[id]
       /\ \A m \in processed_stories, q \in processed_stories' :
            m.story_id = q.story_id => m.processed_at = q.processed_at]_vars

\* the db purge and the file purge, as steps of a run
IsCleanupStep(r) == run[r].pc = "cleanup" /\ run'[r].pc = "interests"
IsFileCleanupStep(r) ==
    run[r].pc \in {"idle", "exited"} /\ run'[r].pc = "fetch" /\ run'[r].variant = "file"

MapOf(rows) == [id \in {m.story_id : m \in rows} |->
                   (CHOOSE m \in rows : m.story_id = id).processed_at]

\* C3 as stated: the purge deletes exactly the markers older than the
\* window, keeps the others and returns the number it removed.
C3_PurgeReturnsCount ==
    [][\A r \in DOMAIN run :
        /\ IsCleanupStep(r) =>
            /\ processed_stories' = processed_stories \ ExpiredRows(processed_stories, now)
            /\ run'[r].cleanupReturn =
                 [type |-> "number",
                  value |-> Cardinality(ExpiredRows(processed_stories, now))]
        /\ IsFileCleanupStep(r) =>
            run'[r].cleanupReturn =
                 [type |-> "number",
                  value |-> Cardinality(ExpiredRows(run'[r].loadedRows, now))]]_vars

\* C3 amended: a purge whose DELETE succeeds deletes exactly the markers
\* with now - processedAt > window and keeps every other marker unchanged; a
\* purge whose DELETE fails deletes nothing; neither returns a value.  The
\* file-based purge returns the loaded map without exactly those markers, and
\* the file is either left as it was or, when a marker was dropped, rewritten
\* as that map.
C3_PurgeDeletesExpired ==
    [][\A r \in DOMAIN run :
        /\ IsCleanupStep(r) =>
            /\ run'[r].cleanupOk =>
                 processed_stories' =
                     processed_stories \ ExpiredRows(processed_stories, now)
            /\ ~run'[r].cleanupOk => processed_stories' = processed_stories
            /\ run'[r].cleanupReturn = [type |-> "undefined"]
        /\ IsFileCleanupStep(r) =>
            LET loaded == run'[r].loadedRows
                kept == MapOf(loaded \ ExpiredRows(loaded, now))
            IN  /\ run'[r].cleanupReturn = [type |-> "object", value |-> kept]
                /\ \/ history_file' = history_file
                   \/ /\ ExpiredRows(loaded, now) /= {}
                      /\ history_file' = FileOf(kept)]_vars

\* a purge has just deleted an expired marker from the table
C3_Witness ==
    \E r \in DOMAIN run :
        /\ run[r].variant = "db"
        /\ run[r].pc = "interests"
        /\ run[r].cleanupOk
        /\ \E gone \in run[r].loadedRows :
            /\ gone \notin processed_stories
            /\ now - gone.processed_at > historyExpiryDays

AfterFetch(r) == run[r].pc \in {"classify", "summarize", "mark", "deliver", "exited"}
                    /\ run[r].allStories /= <<>>

\* C4: the gate returns, in order, exactly the candidates whose id has no
\* non-expired marker (for a run whose store queries succeeded).
C4_GateKeepsExactlyUnmarkedOrExpired ==
    \A r \in DOMAIN run :
        (AfterFetch(r) /\ run[r].loadOk /\ run[r].cleanupOk) =>
            LET live == LiveIds(run[r].loadedRows, run[r].loadedAt)
                NotLive(id) == id \notin live
            IN  run[r].unprocessedStories = SelectSeq(run[r].allStories, NotLive)

\* C5: no run enriches more items than the quota of 10: the loop stops as
\* soon as the accepted count reaches it.
C5_AcceptedNeverExceedsQuota ==
    \A r \in DOMAIN run : Len(run[r].relevantSummaries) <= 10

HiringTitled ==
    {id \in CatalogueIds :
        \E keyword \in hiringKeywords : includes(toLowerCase(title(id)), keyword)}

ContainsHiringKeyword(id) == id \in HiringTitled

\* C6: a candidate whose title contains a hiring keyword, compared without
\* regard to case, is not among the stories the loop iterates and is never
\* passed to the classifier.
C6_HiringNeverClassified ==
    \A r \in DOMAIN run :
        run[r].variant = "db" =>
            \A id \in Range(run[r].stories) \cup Range(run[r].classified) :
                ~ContainsHiringKeyword(id)

\* a run was offered a job post next to another story and classified the
\* other one
C6_Witness ==
    \E r \in DOMAIN run :
        /\ run[r].variant = "db"
        /\ \E id \in Range(run[r].unprocessedStories) : ContainsHiringKeyword(id)
        /\ run[r].classified /= <<>>

\* the titles of the five most recently created records of one rating, oldest
\* first
RecentTitles(rating) ==
    LET OfRating(row) == row.rating = rating
        rows == SelectSeq(feedback_history, OfRating)
        from == IF Len(rows) > 5 THEN Len(rows) - 4 ELSE 1
    IN  [k \in 1..(Len(rows) - from + 1) |-> rows[from + k - 1].title]

ListedTitles(lines) == [k \in 1..Len(lines) |-> lines[k].title]

\* C7: the prompt lists, per rating, exactly the five most recently created
\* feedback titles (all of them when there are at most five), in
\* chronological order.
C7_PromptListsFiveMostRecent ==
    prompt.variant /= "none" =>
        /\ ListedTitles(prompt.examples.relevant) = RecentTitles("positive")
        /\ ListedTitles(prompt.examples.notRelevant) = RecentTitles("negative")

IsLetter(c) == IndexIn(c, UpperCase) > 0 \/ IndexIn(c, LowerCase) > 0

\* the first token of an answer: the letters it starts with, white space
\* before them aside
RECURSIVE LeadingLetters(_)
LeadingLetters(s) ==
    IF s /= <<>> /\ IsLetter(Head(s)) THEN <<Head(s)>> \o LeadingLetters(Tail(s)) ELSE <<>>

FirstToken(s) == LeadingLetters(trimStart(s))

\* C8: the verdict is accepted exactly when the first token of the oracle's
\* answer equals YES, compared without regard to case.
C8_AcceptedIffFirstTokenYes ==
    verdict.returned =>
        (verdict.isRelevant <=>
            toUpperCase(FirstToken(verdict.reason)) = <<"Y", "E", "S">>)

IsGetInterests == requests' = requests + 1 /\ req'.endpoint = "/interests"
                    /\ req'.method = "GET"

\* C9: the committed interest set changes only when a replace commits, and
\* then to the complete new list; a replace that fails at any step leaves
\* the set as it was before the call; a load whose query succeeds while a
\* replace is in flight returns the complete old set or the complete new
\* one.
C9_ReplaceAllOrNothing ==
    [][/\ interests' /= interests =>
            /\ txn.phase /= "none"
            /\ resp'.status = 200
            /\ loadInterests(interests') = txn.new
       /\ (txn.phase /= "none" /\ txn'.phase = "none" /\ resp'.status = 500) =>
            interests' = txn.before
       /\ (IsGetInterests /\ resp'.queryOk /\ txn.phase /= "none") =>
            resp'.interests \in {loadInterests(txn.before), txn.new}]_vars

\* a load has just answered with the whole old set while a replace has
\* deleted it and inserted the first of two new terms
C9_Witness ==
    /\ txn.phase = "deleted"
    /\ txn.before /= {}
    /\ txn.rows /= {}
    /\ txn.todo /= <<>>
    /\ req.endpoint = "/interests"
    /\ req.method = "GET"
    /\ resp.queryOk
    /\ resp.interests = loadInterests(txn.before)

IsGetFeedback == requests' = requests + 1 /\ req'.endpoint = "/feedback"

\* C10: GET /feedback answers 400 and leaves the feedback table and the
\* feedback file as they were when the rating is not exactly positive or
\* negative or when story or rating is missing.
C10_InvalidFeedbackRejected ==
    [][(/\ IsGetFeedback
        /\ \/ req'.rating \notin {"positive", "negative"}
           \/ req'.story = Undefined
           \/ req'.rating = Undefined) =>
            /\ resp'.status = 400
            /\ feedback_history' = feedback_history
            /\ feedback_file' = feedback_file]_vars

\* a request rated "maybe" has just been rejected by the server whose table
\* holds a record
C10_Witness ==
    /\ req.endpoint = "/feedback"
    /\ req.rating = "maybe"
    /\ req.story = "1"
    /\ resp.status = 400
    /\ feedback_history /= <<>>
\* b is a with zero or more records added at its end
IsPrefix(a, b) == Len(a) <= Len(b) /\ SubSeq(b, 1, Len(a)) = a

ValidFeedback ==
    /\ IsGetFeedback
    /\ ~falsy(req'.story)
    /\ req'.rating \in {"positive", "negative"}

\* C11: no step changes or removes a feedback record, and every valid
\* submitFeedback adds exactly one record, of the story and rating submitted,
\* to the store of the server that received it.
C11_FeedbackAppendOnly ==
    [][/\ IsPrefix(feedback_history, feedback_history')
       /\ IsPrefix(feedback_file.data.positive, feedback_file'.data.positive)
       /\ IsPrefix(feedback_file.data.negative, feedback_file'.data.negative)
       /\ (ValidFeedback /\ req'.server = "db") =>
            /\ Len(feedback_history') = Len(feedback_history) + 1
            /\ feedback_history'[Len(feedback_history')].story_id = req'.story
            /\ feedback_history'[Len(feedback_history')].rating = req'.rating
       /\ (ValidFeedback /\ req'.server = "file") =>
            /\ Len(feedback_file'.data[req'.rating]) =
                    Len(feedback_file.data[req'.rating]) + 1
            /\ feedback_file'.data[req'.rating]
                    [Len(feedback_file'.data[req'.rating])].storyId = req'.story]_vars
\* the calls of deliverDigest a process has made: those that returned and
\* the one that rejected
DeliveryCalls(r) == Len(run[r].delivered) + (IF run[r].failure = "delivery" THEN 1 ELSE 0)

Completed(r) == run[r].pc = "exited" /\ run[r].exitCode = 0

\* C12 as stated: a digest run that completes has called the delivery
\* collaborator exactly once, with exactly the items the classifier accepted
\* in that run, in iteration order.
C12_DeliveredExactlyOnce ==
    \A r \in DOMAIN run :
        Completed(r) => run[r].delivered = <<run[r].accepted>>

\* C12 amended: a run calls the delivery collaborator at most once and only
\* after the loop has ended; a run that completes with at least one accepted
\* item has delivered exactly the accepted items in iteration order, and one
\* that completes with none has made no delivery call.
C12_DeliveredOnceWhenAccepted ==
    \A r \in DOMAIN run :
        /\ DeliveryCalls(r) <= 1
        /\ DeliveryCalls(r) = 1 =>
              /\ run[r].pc = "exited"
              /\ run[r].pos > Len(run[r].stories)
              /\ run[r].accepted /= <<>>
        /\ run[r].delivered /= <<>> => run[r].delivered = <<run[r].accepted>>
        /\ Completed(r) =>
              /\ DeliveryCalls(r) = (IF run[r].accepted = <<>> THEN 0 ELSE 1)
              /\ run[r].failure = "none"

\* a completed run has delivered two accepted items in iteration order and
\* left out the one the classifier rejected between them
C12_Witness ==
    \E r \in DOMAIN run :
        /\ Completed(r)
        /\ Len(run[r].classified) = 3
        /\ run[r].accepted = <<run[r].classified[1], run[r].classified[3]>>
        /\ run[r].delivered = <<run[r].accepted>>
\* C13: a failure of one item (comment fetch or oracle call) does not end
\* the run: the run goes on with the next candidate.
C13_ItemFailureDoesNotAbort ==
    \A r \in DOMAIN run :
        run[r].failure \in {"comments", "oracle"} => run[r].pc /= "exited"

\* a run has gone past loading the interests
PastInterests(r) == run[r].pc \notin {"idle", "load", "cleanup", "interests"}

\* C16: a store-backed run that finds no interest terms ends with a non-zero
\* exit code and the store connection closed, having fetched and classified
\* no candidate, written no marker and made no delivery call.
C16_NoInterestsFailsRun ==
    \A r \in DOMAIN run :
        (run[r].variant = "db" /\ PastInterests(r) /\ run[r].userInterests = <<>>) =>
            /\ run[r].pc = "exited"
            /\ run[r].exitCode /= 0
            /\ run[r].poolClosed
            /\ run[r].allStories = <<>>
            /\ run[r].classified = <<>>
            /\ run[r].marked = <<>>
            /\ DeliveryCalls(r) = 0

\* a run has ended because the interests table was empty
C16_Witness ==
    \E r \in DOMAIN run :
        /\ run[r].variant = "db"
        /\ run[r].pc = "exited"
        /\ run[r].userInterests = <<>>
        /\ interests = {}
        /\ run[r].exitCode = 1

\* the candidates accepted among the first n classified
AcceptedAmong(r, n) ==
    Cardinality({k \in 1..n : run[r].classified[k] \in Range(run[r].accepted)})

\* C17: once a run has accepted 10 candidates it stops: no later candidate
\* of the iteration order is classified or marked by that run.
C17_NothingAfterQuotaStop ==
    \A r \in DOMAIN run :
        /\ \A k \in 1..Len(run[r].classified) : AcceptedAmong(r, k - 1) < 10
        /\ \A id \in Range(run[r].marked) :
              \E k \in 1..Len(run[r].classified) :
                  run[r].classified[k] = id /\ AcceptedAmong(r, k - 1) < 10

MarkedIds == {m.story_id : m \in processed_stories}

\* the iteration of the k-th classified candidate of a run has ended
IterationEnded(r, k) == run[r].pos > k \/ run[r].pc \in {"deliver", "exited"}

\* C18: a candidate passed to the classifier has a marker in the store once
\* its iteration has ended, and after a completed run the ids the run
\* marked are the ids it classified.
C18_ClassifiedIsMarked ==
    \A r \in DOMAIN run :
        run[r].variant = "db" =>
            /\ \A k \in 1..Len(run[r].classified) :
                  IterationEnded(r, k) => run[r].classified[k] \in MarkedIds
            /\ Completed(r) => Range(run[r].marked) = Range(run[r].classified)

\* the position of a story in the batch fetchTopStories returned
FetchIndex(r, id) == CHOOSE k \in 1..Len(run[r].allStories) : run[r].allStories[k] = id

\* C19: of two candidates classified in one run, the one classified first
\* has the higher score, or the same score and the earlier place in the
\* fetched batch.
C19_ClassifiedByScoreThenFetchOrder ==
    \A r \in DOMAIN run :
        run[r].variant = "db" =>
            \A i, j \in 1..Len(run[r].classified) :
                i < j =>
                    LET a == run[r].classified[i]
                        b == run[r].classified[j]
                    IN  \/ points(a) > points(b)
                        \/ /\ points(a) = points(b)
                           /\ FetchIndex(r, a) < FetchIndex(r, b)

\* a run has classified three candidates, a lower-scored one that was fetched
\* first after two equally scored ones
C19_Witness ==
    \E r \in DOMAIN run :
        /\ Len(run[r].classified) = 3
        /\ run[r].classified[3] = run[r].allStories[1]
        /\ points(run[r].classified[1]) = points(run[r].classified[2])
        /\ points(run[r].classified[2]) > points(run[r].classified[3])

\* C20: a failure of the enrichment of an accepted item does not end the
\* run: the item is left out of the digest and the run goes on.
C20_EnrichmentFailureDropsItem ==
    \A r \in DOMAIN run :
        run[r].failure = "enrichment" =>
            /\ run[r].pc /= "exited"
            /\ run[r].classified[Len(run[r].classified)]
                    \notin Range(run[r].relevantSummaries)
\* a request to one of the four endpoints that check the secret
Guarded(q) ==
    \/ q.endpoint = "/trigger-digest"
    \/ q.endpoint = "/interests" /\ q.method = "POST"
    \/ q.endpoint = "/interests/add"
    \/ q.endpoint = "/interests/:interest"

\* C14: a request to a secret-guarded endpoint whose secret is missing or
\* differs from the configured one, or that arrives while no secret is
\* configured, is answered 401 and starts no process, opens no transaction
\* and leaves the interest set as it was.
C14_UnauthorizedHasNoEffect ==
    [][(/\ requests' = requests + 1
        /\ Guarded(req')
        /\ \/ CRON_SECRET \in {Undefined, ""}
           \/ req'.secret = Undefined
           \/ req'.secret /= CRON_SECRET) =>
            /\ resp'.status = 401
            /\ interests' = interests
            /\ txn' = txn
            /\ run' = run
            /\ starts' = starts]_vars

\* after an authorized trigger has spawned a process and an authorized add
\* has stored a term, a trigger with a wrong secret has just been rejected
C14_Witness ==
    /\ CRON_SECRET = "s3cret"
    /\ req.endpoint = "/trigger-digest"
    /\ req.secret = "guess"
    /\ resp.status = 401
    /\ starts = 1
    /\ \E row \in interests : row.interest = "ML"

IsTrigger == requests' = requests + 1 /\ req'.endpoint = "/trigger-digest"

\* an authorized trigger is answered 'started' in the step that spawns the
\* process, before the process has run any of main()
TriggerStep ==
    (IsTrigger /\ ~unauthorized(req'.secret)) =>
        /\ resp' = [status |-> 200, body |-> "started"]
        /\ starts' = starts + 1
        /\ \E r \in ProcessIds :
              /\ run[r].pc \in {"idle", "exited"}
              /\ run'[r].pc = "load"
              /\ run'[r].classified = <<>>

\* the steps of a process leave the request and its answer alone
DetachedStep ==
    (~IsTrigger /\ \E r \in ProcessIds : run'[r] /= run[r]) =>
        /\ req' = req
        /\ resp' = resp

\* C15: an authorized trigger is answered 'started' at once, without waiting
\* for the process it spawns; the process runs independently of the request
\* and, once spawned, runs to its end.
C15_TriggerAnswersAtOnce ==
    /\ [][TriggerStep /\ DetachedStep]_vars
    /\ \A r \in ProcessIds : (run[r].pc = "load") ~> (run[r].pc = "exited")

\* the process an authorized trigger spawned has delivered a digest and
\* ended, and the trigger's answer is still 'started'
C15_Witness ==
    /\ req.endpoint = "/trigger-digest"
    /\ resp = [status |-> 200, body |-> "started"]
    /\ \E r \in ProcessIds :
          /\ run[r].pc = "exited"
          /\ run[r].exitCode = 0
          /\ run[r].delivered /= <<>>

\* C21: a failure of the delivery call ends the run as failed: the process
\* exits with a non-zero code, nothing was delivered, and the store
\* connection of a store-backed run was released before the exit.
C21_DeliveryFailureEndsRunFailed ==
    \A r \in DOMAIN run :
        run[r].failure = "delivery" =>
            /\ run[r].pc = "exited"
            /\ run[r].exitCode /= 0
            /\ run[r].delivered = <<>>
            /\ run[r].variant = "db" => run[r].poolClosed

\* the delivery call of a run with two accepted items, all of them marked,
\* rejected
C21_Witness ==
    \E r \in DOMAIN run :
        /\ run[r].failure = "delivery"
        /\ Len(run[r].accepted) = 2
        /\ run[r].marked = run[r].classified

\* the interests and the excluded terms each classification of a run saw
InterestsSeen(r) == {run[r].profiles[k].interests : k \in DOMAIN run[r].profiles}
ExcludedSeen(r) == {run[r].profiles[k].notInterested : k \in DOMAIN run[r].profiles}

Classifies(r) == Len(run'[r].profiles) = Len(run[r].profiles) + 1

LoadedIds(r) == {row.story_id : row \in run[r].loadedRows}

\* the loop of process r has ended
LoopEnded(r) == run[r].pc = "deliver" \/ Completed(r)

\* C23: markers are read only at run start and nothing serialises two runs:
\* the candidates of a run are the fetched content stories without a marker
\* among the rows it loaded at its start, whatever markers other runs have
\* written since, and the run classifies every one of them; so an item the
\* first run has not yet marked when the second starts is classified (and
\* delivered) by both.
C23_OverlappingRunsBothClassify ==
    \A r \in DOMAIN run :
        /\ AfterFetch(r) =>
                Range(run[r].stories) =
                    {id \in Range(run[r].allStories) :
                        contentStory[id] /\ id \notin LoadedIds(r)}
        /\ LoopEnded(r) => run[r].classified = run[r].stories

\* two processes have both delivered story 1, which neither found marked
\* at its start
C23_Witness ==
    \E r1 \in DOMAIN run, r2 \in DOMAIN run :
        /\ r1 /= r2
        /\ Completed(r1) /\ Completed(r2)
        /\ 1 \notin LoadedIds(r1) \cup LoadedIds(r2)
        /\ run[r1].delivered /= <<>> /\ 1 \in Range(run[r1].delivered[1])
        /\ run[r2].delivered /= <<>> /\ 1 \in Range(run[r2].delivered[1])
        /\ 1 \in MarkedIds

\* process k was killed
Killed(k) == run[k].failure = "killed"

\* the ids process k marked that process r found with a live marker when
\* it loaded the markers
LiveMarksOf(k, r) ==
    Range(run[k].marked) \cap LiveIds(run[r].loadedRows, run[r].loadedAt)

\* a step removes a marker only when the marker has expired
OnlyExpiredRemoved ==
    \A row \in processed_stories :
        row \notin processed_stories' => now - row.processed_at > historyExpiryDays

\* each fetched candidate without a marker among the rows process r loaded
\* passes the deduplication gate of r
UnmarkedEligible(r) ==
    AfterFetch(r) =>
        \A id \in Range(run[r].allStories) :
            id \notin LoadedIds(r) => id \in Range(run[r].unprocessedStories)

KillStep(k) == ~Killed(k) /\ run'[k].failure = "killed"

DeliveryStep(k) == run[k].pc = "deliver" /\ run'[k].pc = "exited" /\ ~Killed(k)'

LoadStep(r) ==
    \/ run[r].pc = "load" /\ run'[r].pc /= "load"
    \/ run[r].pc \in {"idle", "exited"} /\ run'[r].pc \notin {"idle", "exited", "load"}

IsGetHealth == requests' = requests + 1 /\ req'.endpoint = "/health"

C26_VariantsHoldSameMarkers ==
    /\ loadProcessedStories(processed_stories) = loadProcessedStoriesFile(history_file)
    /\ \A id \in StoryIds :
          isUnprocessed(loadProcessedStories(processed_stories), id)
              = isUnprocessedFile(loadProcessedStoriesFile(history_file), id)

\* C27: a candidate removed by the hiring-keyword filter never receives a
\* processed marker, so in every run in which the source returns it it
\* passes the deduplication gate and is removed by the hiring filter again.
C27_HiringNeverMarked ==
    /\ \A id \in MarkedIds : ~ContainsHiringKeyword(id)
    /\ \A r \in DOMAIN run :
          (run[r].variant = "db" /\ AfterFetch(r)) =>
              \A id \in Range(run[r].allStories) :
                  ContainsHiringKeyword(id) =>
                      /\ id \in Range(run[r].unprocessedStories)
                      /\ id \notin Range(run[r].stories)
                      /\ id \notin Range(run[r].marked)

\* the second run, which loaded the marker of story 1, was offered the job
\* post 2 next to it: the post passed the gate, story 1 did not, and the
\* hiring filter removed the post
C27_Witness ==
    \E r \in DOMAIN run :
        /\ starts = 2
        /\ Completed(r)
        /\ run[r].loadOk /\ 1 \in LoadedIds(r)
        /\ Range(run[r].allStories) = {1, 2}
        /\ run[r].unprocessedStories = <<2>>
        /\ run[r].stories = <<>>
        /\ MarkedIds = {1}

\* GET /feedback has answered with the page "Thanks for your feedback!"
AnswersThanks == IsGetFeedback /\ resp'.status = 200

\* C29: a success answer of GET /feedback implies that exactly one new
\* feedback record of that item and rating is in the store of the server
\* that answered; when the store write fails the endpoint does not answer
\* with success.
C29_SuccessImpliesRecorded ==
    [][/\ (AnswersThanks /\ req'.server = "db") =>
            /\ Len(feedback_history') = Len(feedback_history) + 1
            /\ feedback_history'[Len(feedback_history')].story_id = req'.story
            /\ feedback_history'[Len(feedback_history')].rating = req'.rating
       /\ (AnswersThanks /\ req'.server = "file") =>
            /\ Len(feedback_file'.data[req'.rating]) =
                    Len(feedback_file.data[req'.rating]) + 1
            /\ feedback_file'.data[req'.rating]
                    [Len(feedback_file'.data[req'.rating])].storyId = req'.story]_vars

NoDuplicates(s) == \A i \in DOMAIN s, j \in DOMAIN s : s[i] = s[j] => i = j

====
